---- MODULE Spec2Model ----
(***************************************************************************)
(* A model of scripts/parse_docs.py, the ExchIndex data builder.           *)
(*                                                                         *)
(* Python strings are modelled as sequences of one-character strings, so   *)
(* that the regular expressions and the str methods of the script are      *)
(* computed character by character.                                        *)
(***************************************************************************)
EXTENDS Integers, Sequences, FiniteSets, TLC

VARIABLES
    \* get_exchange_category: its argument, its return value, whether it ran
    cmdlet_name, category, cat_done,
    \* extract_section: its arguments, its return value, whether it ran
    sec_lines, section_name, sec_result, sec_done,
    \* parse_front_matter: the lines of the document, whether they stand in
    \* a '---' block, its return value, whether it ran
    fm_lines, fm_wrapped, fm_result, fm_done,
    \* main: where the run stands, and the exception that ended it ("" none)
    pc, raised,
    \* fetch_module_versions: the next entry of MODULE_PACKAGE_MAP, and versions
    fetch_i, module_versions,
    \* the traversal: the entry of WORKLOAD_DIRS at hand, whether its file
    \* loop is running, the last file it took, every file parsed so far
    wl, in_dir, last_file, visited,
    \* the accumulators of main; module_order is the key order of modules_data
    manifest_entries, descriptions, modules_data, module_order,
    \* the files written, and the next module of the write loop
    manifest_file, descriptions_file, module_files, write_i

cat_vars == <<cmdlet_name, category, cat_done>>
sec_vars == <<sec_lines, section_name, sec_result, sec_done>>
fm_vars == <<fm_lines, fm_wrapped, fm_result, fm_done>>
fetch_vars == <<fetch_i, module_versions>>
walk_vars == <<wl, in_dir, last_file, visited>>
acc_vars == <<manifest_entries, descriptions, modules_data, module_order>>
out_vars == <<manifest_file, descriptions_file, module_files, write_i>>
main_vars == <<pc, raised, fetch_vars, walk_vars, acc_vars, out_vars>>
vars == <<cat_vars, sec_vars, fm_vars, main_vars>>

\* a function left unused by the specification at hand
CatIdle ==
    /\ cmdlet_name = <<>>
    /\ category = <<>>
    /\ cat_done = FALSE

SecIdle ==
    /\ sec_lines = <<>>
    /\ section_name = <<>>
    /\ sec_result = <<>>
    /\ sec_done = FALSE

FmIdle ==
    /\ fm_lines = <<>>
    /\ fm_wrapped = FALSE
    /\ fm_result = <<>>
    /\ fm_done = FALSE

MainIdle ==
    /\ pc = "idle"
    /\ raised = ""
    /\ fetch_i = 1
    /\ module_versions = <<>>
    /\ wl = 1
    /\ in_dir = FALSE
    /\ last_file = 0
    /\ visited = <<>>
    /\ manifest_entries = <<>>
    /\ descriptions = <<>>
    /\ modules_data = <<>>
    /\ module_order = <<>>
    /\ manifest_file = <<>>
    /\ descriptions_file = <<>>
    /\ module_files = <<>>
    /\ write_i = 1

----------------------------------------------------------------------------
(* Characters and the str / re primitives the script uses.                 *)

\* the backquote character, which a TLA+ string literal cannot hold
BackQuote == "backquote"

UpperChars == <<"A","B","C","D","E","F","G","H","I","J","K","L","M","N","O","P","Q","R","S","T","U","V","W","X","Y","Z">>
LowerChars == <<"a","b","c","d","e","f","g","h","i","j","k","l","m","n","o","p","q","r","s","t","u","v","w","x","y","z">>
DigitChars == <<"0","1","2","3","4","5","6","7","8","9">>

InSeq(c, s) == \E i \in 1..Len(s) : s[i] = c

\* [A-Z]
IsUpper(c) == InSeq(c, UpperChars)
\* [a-z]
IsLower(c) == InSeq(c, LowerChars)
\* \w
IsWord(c) == IsUpper(c) \/ IsLower(c) \/ InSeq(c, DigitChars) \/ c = "_"
\* \s, and what str.strip() removes
IsSpace(c) == c \in {" ", "\t", "\n", "\r", "\f"}

\* re.IGNORECASE compares characters up to case
Fold(c) == IF IsUpper(c) THEN LowerChars[CHOOSE i \in 1..Len(UpperChars) : UpperChars[i] = c] ELSE c

\* the literal p stands in s at position i
MatchAt(s, i, p) ==
    /\ i >= 1
    /\ i + Len(p) - 1 <= Len(s)
    /\ \A k \in 1..Len(p) : s[i + k - 1] = p[k]

\* the same under re.IGNORECASE
MatchAtI(s, i, p) ==
    /\ i >= 1
    /\ i + Len(p) - 1 <= Len(s)
    /\ \A k \in 1..Len(p) : Fold(s[i + k - 1]) = Fold(p[k])

\* the first k of lo..hi with P(k), 0 when there is none: a scan to the right
FirstIn(lo, hi, P(_)) ==
    IF \E k \in lo..hi : P(k)
    THEN CHOOSE k \in lo..hi : P(k) /\ \A j \in lo..(k - 1) : ~P(j)
    ELSE 0

\* the last k of lo..hi with P(k), 0 when there is none: a scan to the left
LastIn(lo, hi, P(_)) ==
    IF \E k \in lo..hi : P(k)
    THEN CHOOSE k \in lo..hi : P(k) /\ \A j \in (k + 1)..hi : ~P(j)
    ELSE 0

\* position of the first occurrence of character c in s from i on, 0 when
\* there is none
IndexFrom(s, c, i) == FirstIn(i, Len(s), LAMBDA k : s[k] = c)

IndexOf(s, c) == IndexFrom(s, c, 1)

Tail0(s, i) == SubSeq(s, i, Len(s))

----------------------------------------------------------------------------
(* The Exchange noun-based sub-category table, in its declared order.      *)
(* A pattern is the sequence of its '|' alternatives, each a literal.      *)

EXCHANGE_CATEGORY_MAP == <<
    [pattern |-> << <<"M","a","i","l","b","o","x">> >>,
     cat |-> <<"M","a","i","l","b","o","x"," ","M","a","n","a","g","e","m","e","n","t">>],
    [pattern |-> << <<"T","r","a","n","s","p","o","r","t","R","u","l","e">>, <<"T","r","a","n","s","p","o","r","t","C","o","n","f","i","g">> >>,
     cat |-> <<"T","r","a","n","s","p","o","r","t"," ","R","u","l","e","s">>],
    [pattern |-> << <<"D","l","p","C","o","m","p","l","i","a","n","c","e">> >>,
     cat |-> <<"D","a","t","a"," ","L","o","s","s"," ","P","r","e","v","e","n","t","i","o","n">>],
    [pattern |-> << <<"R","e","t","e","n","t","i","o","n","P","o","l","i","c","y">>, <<"R","e","t","e","n","t","i","o","n","C","o","m","p","l","i","a","n","c","e">> >>,
     cat |-> <<"R","e","t","e","n","t","i","o","n"," ","&"," ","C","o","m","p","l","i","a","n","c","e">>],
    [pattern |-> << <<"A","n","t","i","P","h","i","s","h">>, <<"A","n","t","i","S","p","a","m">>, <<"M","a","l","w","a","r","e","F","i","l","t","e","r">>, <<"S","a","f","e","A","t","t","a","c","h","m","e","n","t">>, <<"S","a","f","e","L","i","n","k","s">> >>,
     cat |-> <<"T","h","r","e","a","t"," ","P","r","o","t","e","c","t","i","o","n">>],
    [pattern |-> << <<"C","A","S","M","a","i","l","b","o","x">>, <<"O","w","a","M","a","i","l","b","o","x","P","o","l","i","c","y">>, <<"A","c","t","i","v","e","S","y","n","c">> >>,
     cat |-> <<"C","l","i","e","n","t"," ","A","c","c","e","s","s">>],
    [pattern |-> << <<"D","i","s","t","r","i","b","u","t","i","o","n","G","r","o","u","p">>, <<"U","n","i","f","i","e","d","G","r","o","u","p">>, <<"D","y","n","a","m","i","c","D","i","s","t","r","i","b","u","t","i","o","n","G","r","o","u","p">> >>,
     cat |-> <<"G","r","o","u","p","s"," ","&"," ","D","i","s","t","r","i","b","u","t","i","o","n">>],
    [pattern |-> << <<"O","r","g","a","n","i","z","a","t","i","o","n","C","o","n","f","i","g">>, <<"A","c","c","e","p","t","e","d","D","o","m","a","i","n">>, <<"R","e","m","o","t","e","D","o","m","a","i","n">>, <<"F","e","d","e","r","a","t","e","d","O","r","g","a","n","i","z","a","t","i","o","n">> >>,
     cat |-> <<"O","r","g","a","n","i","z","a","t","i","o","n">>],
    [pattern |-> << <<"M","o","v","e","R","e","q","u","e","s","t">>, <<"M","i","g","r","a","t","i","o","n","B","a","t","c","h">>, <<"M","i","g","r","a","t","i","o","n","E","n","d","p","o","i","n","t">>, <<"M","i","g","r","a","t","i","o","n","U","s","e","r">> >>,
     cat |-> <<"M","i","g","r","a","t","i","o","n">>],
    [pattern |-> << <<"e","D","i","s","c","o","v","e","r","y">>, <<"C","o","m","p","l","i","a","n","c","e","S","e","a","r","c","h">>, <<"C","o","m","p","l","i","a","n","c","e","C","a","s","e">> >>,
     cat |-> <<"e","D","i","s","c","o","v","e","r","y">>],
    [pattern |-> << <<"J","o","u","r","n","a","l","R","u","l","e">>, <<"M","e","s","s","a","g","e","T","r","a","c","e">>, <<"M","e","s","s","a","g","e","T","r","a","c","k","i","n","g">> >>,
     cat |-> <<"M","e","s","s","a","g","e"," ","T","r","a","c","k","i","n","g">>],
    [pattern |-> << <<"R","o","l","e","G","r","o","u","p">>, <<"M","a","n","a","g","e","m","e","n","t","R","o","l","e">>, <<"R","o","l","e","A","s","s","i","g","n","m","e","n","t">> >>,
     cat |-> <<"P","e","r","m","i","s","s","i","o","n","s"," ","&"," ","R","o","l","e","s">>],
    [pattern |-> << <<"A","d","d","r","e","s","s","B","o","o","k">>, <<"A","d","d","r","e","s","s","L","i","s","t">>, <<"E","m","a","i","l","A","d","d","r","e","s","s">>, <<"G","l","o","b","a","l","A","d","d","r","e","s","s","L","i","s","t">> >>,
     cat |-> <<"A","d","d","r","e","s","s"," ","M","a","n","a","g","e","m","e","n","t">>]
>>

EXCHANGE_GENERAL == <<"E","x","c","h","a","n","g","e"," ","G","e","n","e","r","a","l">>

\* re.search(pattern, s, re.IGNORECASE) for an alternation of literals:
\* the scan over start positions, the alternatives tried in order at each
RECURSIVE AltAt(_, _, _, _)
AltAt(alts, s, i, a) ==
    IF a > Len(alts) THEN FALSE
    ELSE IF MatchAtI(s, i, alts[a]) THEN TRUE
    ELSE AltAt(alts, s, i, a + 1)

re_search_ignorecase(alts, s) ==
    FirstIn(1, Len(s) + 1, LAMBDA i : AltAt(alts, s, i, 1)) # 0

\* cmdlet_name.split('-', 1)[1] if '-' in cmdlet_name else ''
NounOf(name) ==
    IF IndexOf(name, "-") = 0 THEN <<>>
    ELSE Tail0(name, IndexOf(name, "-") + 1)

\* the for loop of get_exchange_category, from rule i on
RECURSIVE CategoryFrom(_, _)
CategoryFrom(noun, i) ==
    IF i > Len(EXCHANGE_CATEGORY_MAP) THEN EXCHANGE_GENERAL
    ELSE IF re_search_ignorecase(EXCHANGE_CATEGORY_MAP[i].pattern, noun)
         THEN EXCHANGE_CATEGORY_MAP[i].cat
    ELSE CategoryFrom(noun, i + 1)

\* a classifier that keeps the last matching rule instead of the first
RECURSIVE CategoryLastFrom(_, _, _)
CategoryLastFrom(noun, i, acc) ==
    IF i > Len(EXCHANGE_CATEGORY_MAP) THEN acc
    ELSE CategoryLastFrom(noun, i + 1,
            IF re_search_ignorecase(EXCHANGE_CATEGORY_MAP[i].pattern, noun)
            THEN EXCHANGE_CATEGORY_MAP[i].cat ELSE acc)

get_exchange_category_last_match(name) == CategoryLastFrom(NounOf(name), 1, EXCHANGE_GENERAL)

get_exchange_category(name) == CategoryFrom(NounOf(name), 1)

----------------------------------------------------------------------------
(* The classifier on its own: every identity of CategoryInputs, classified *)
(* once.                                                                   *)

\* every pattern alternative of the table
AllAlternatives ==
    { EXCHANGE_CATEGORY_MAP[i].pattern[a] :
        <<i, a>> \in { p \in (1..Len(EXCHANGE_CATEGORY_MAP)) \X (1..5) :
                          p[2] <= Len(EXCHANGE_CATEGORY_MAP[p[1]].pattern) } }

LowerCased(s) == [k \in 1..Len(s) |-> Fold(s[k])]

NounCores == AllAlternatives \cup { <<"U","s","e","r">>, <<"M","e","s","s","a","g","e">>, <<>> }
NounPrefixes == { <<>>, <<"X">> }
NounSuffixes == { <<>>, <<"P","e","r","m","i","s","s","i","o","n">>, <<"M","a","i","l","b","o","x">>, <<"-","A","d","d","r","e","s","s","L","i","s","t">> }
VerbPrefixes == { <<"G","e","t","-">>, <<"s","e","t","-">> }

CategoryInputs ==
    { v \o p \o c \o s : v \in VerbPrefixes, p \in NounPrefixes, c \in NounCores, s \in NounSuffixes }
    \cup { v \o LowerCased(c) : v \in VerbPrefixes, c \in NounCores }
    \cup { <<"M","a","i","l","b","o","x">>, <<"r","e","a","d","m","e">>, <<>>, <<"-","M","a","i","l","b","o","x">>, <<"G","e","t","-","M","a","i","l","b","o","x","P","e","r","m","i","s","s","i","o","n">> }

CatInit ==
    /\ cmdlet_name \in CategoryInputs
    /\ category = <<>>
    /\ cat_done = FALSE
    /\ SecIdle
    /\ FmIdle
    /\ MainIdle

Classify ==
    /\ ~cat_done
    /\ category' = get_exchange_category(cmdlet_name)
    /\ cat_done' = TRUE
    /\ UNCHANGED <<cmdlet_name, sec_vars, fm_vars, main_vars>>

CatNext == Classify

SpecCategory == CatInit /\ [][CatNext]_vars

\* the rules that match a noun, stated without the loop
MatchingRules(noun) ==
    { i \in 1..Len(EXCHANGE_CATEGORY_MAP) :
        \E a \in 1..Len(EXCHANGE_CATEGORY_MAP[i].pattern) :
            \E k \in 1..(Len(noun) + 1) :
                MatchAtI(noun, k, EXCHANGE_CATEGORY_MAP[i].pattern[a]) }

MinOf(S) == CHOOSE x \in S : \A y \in S : x <= y

FirstMatchLabel(noun) ==
    IF MatchingRules(noun) = {} THEN <<"E","x","c","h","a","n","g","e"," ","G","e","n","e","r","a","l">>
    ELSE EXCHANGE_CATEGORY_MAP[MinOf(MatchingRules(noun))].cat

\* the text after the first '-', stated without IndexOf
IsNounOf(name, noun) ==
    \/ /\ \A k \in 1..Len(name) : name[k] # "-"
       /\ noun = <<>>
    \/ \E k \in 1..Len(name) :
          /\ name[k] = "-"
          /\ \A j \in 1..(k - 1) : name[j] # "-"
          /\ noun = SubSeq(name, k + 1, Len(name))

\* C3: once classified, the label is that of the first rule, in declared
\* order, whose pattern occurs case-insensitively in the noun (the text
\* after the first '-', empty without one), and 'Exchange General' when no
\* rule matches; Get-MailboxPermission is 'Mailbox Management'.
C3_FirstMatchWins ==
    cat_done =>
        /\ IsNounOf(cmdlet_name, NounOf(cmdlet_name))
        /\ category = FirstMatchLabel(NounOf(cmdlet_name))
        /\ (MatchingRules(NounOf(cmdlet_name)) = {} => category = <<"E","x","c","h","a","n","g","e"," ","G","e","n","e","r","a","l">>)
        /\ (cmdlet_name = <<"G","e","t","-","M","a","i","l","b","o","x","P","e","r","m","i","s","s","i","o","n">> => category = <<"M","a","i","l","b","o","x"," ","M","a","n","a","g","e","m","e","n","t">>)

\* C3: the identity Get-MailboxPermission has been classified, by the
\* Mailbox rule
C3_Witness ==
    /\ cat_done
    /\ cmdlet_name = <<"G","e","t","-","M","a","i","l","b","o","x","P","e","r","m","i","s","s","i","o","n">>
    /\ category = <<"M","a","i","l","b","o","x"," ","M","a","n","a","g","e","m","e","n","t">>

\* C8: no pattern alternative is shadowed by an earlier rule: a noun that
\* is exactly an alternative of rule i is classified with rule i's label
\* (any noun the alternative matches contains it, so an earlier rule that
\* matches the alternative itself matches every such noun first).
C8_NoAlternativeShadowed ==
    cat_done =>
        \A i \in 1..Len(EXCHANGE_CATEGORY_MAP) :
            \A a \in 1..Len(EXCHANGE_CATEGORY_MAP[i].pattern) :
                NounOf(cmdlet_name) = EXCHANGE_CATEGORY_MAP[i].pattern[a]
                    => category = EXCHANGE_CATEGORY_MAP[i].cat

----------------------------------------------------------------------------
(* str.strip, str.splitlines, '\n'.join                                    *)

\* s.strip(chars): every leading and every trailing character of cs goes;
\* what is left runs from the first to the last character outside cs
StripChars(s, cs) ==
    IF FirstIn(1, Len(s), LAMBDA k : s[k] \notin cs) = 0 THEN <<>>
    ELSE SubSeq(s, FirstIn(1, Len(s), LAMBDA k : s[k] \notin cs),
                   LastIn(1, Len(s), LAMBDA k : s[k] \notin cs))

SpaceChars == {" ", "\t", "\n", "\r", "\f"}

\* s.strip()
Strip(s) == StripChars(s, SpaceChars)

\* '\n'.join(lines)
RECURSIVE JoinLines(_)
JoinLines(lines) ==
    IF lines = <<>> THEN <<>>
    ELSE IF Len(lines) = 1 THEN lines[1]
    ELSE lines[1] \o <<"\n">> \o JoinLines(Tail(lines))

\* s.splitlines(): the lines of s, broken at \n, \r\n, \r and \f, without
\* an empty last line after a final line break
RECURSIVE SplitLinesFrom(_, _)
SplitLinesFrom(s, i) ==
    IF i > Len(s) THEN <<>>
    ELSE LET b == FirstIn(i, Len(s), LAMBDA k : s[k] \in {"\n", "\r", "\f"})
         IN  IF b = 0 THEN <<SubSeq(s, i, Len(s))>>
             ELSE IF s[b] = "\r" /\ b < Len(s) /\ s[b + 1] = "\n"
                  THEN <<SubSeq(s, i, b - 1)>> \o SplitLinesFrom(s, b + 2)
             ELSE <<SubSeq(s, i, b - 1)>> \o SplitLinesFrom(s, b + 1)

splitlines(s) == SplitLinesFrom(s, 1)

\* first position from i on that holds no whitespace (Len(s) + 1 at the end)
SpaceRunEnd(s, i) ==
    IF FirstIn(i, Len(s), LAMBDA k : ~IsSpace(s[k])) = 0 THEN Len(s) + 1
    ELSE FirstIn(i, Len(s), LAMBDA k : ~IsSpace(s[k]))

----------------------------------------------------------------------------
(* extract_section                                                         *)

\* the lazy (.*?) before (?=\n## |\Z): the first position from e on where
\* '\n## ' stands, or the end of the text
SectionEnd(text, e) ==
    IF FirstIn(e, Len(text), LAMBDA k : MatchAt(text, k, <<"\n","#","#"," ">>)) = 0 THEN Len(text) + 1
    ELSE FirstIn(e, Len(text), LAMBDA k : MatchAt(text, k, <<"\n","#","#"," ">>))

\* the greedy \s* followed by \n: the last line break of the whitespace
\* run lo..hi-1, 0 when the run holds none
LastNewline(text, lo, hi) == LastIn(lo, hi - 1, LAMBDA k : text[k] = "\n")

\* re.search(rf'## {name}\s*\n(.*?)(?=\n## |\Z)', text, DOTALL | IGNORECASE)
\* tried at start position i and on: group(1) of the first match, or the
\* empty string
\* the heading and its \s*\n match at position i
HeadingAt(text, heading, i) ==
    /\ MatchAtI(text, i, heading)
    /\ LastNewline(text, i + Len(heading), SpaceRunEnd(text, i + Len(heading))) # 0

SectionSearch(text, heading, from) ==
    LET i == FirstIn(from, Len(text), LAMBDA k : HeadingAt(text, heading, k))
    IN  IF i = 0 THEN <<>>
        ELSE LET nl == LastNewline(text, i + Len(heading), SpaceRunEnd(text, i + Len(heading)))
             IN  Strip(SubSeq(text, nl + 1, SectionEnd(text, nl + 1) - 1))

extract_section(text, name) == SectionSearch(text, <<"#","#"," ">> \o name, 1)

----------------------------------------------------------------------------
(* extract_section on its own: every document of at most MaxSecLines lines *)
(* of SecLinePool, every label of SecLabels.                               *)

MaxSecLines == 4

SecLinePool == { <<"#","#"," ","S","Y","N","T","A","X">>, <<"#","#"," ","E","X","A","M","P","L","E","S">>, <<"#","#"," ","s","y","n","t","a","x"," ">>, <<"f","o","o">>, <<"b","a","r">>, <<>> }
SecLabels == { <<"S","Y","N","T","A","X">>, <<"E","X","A","M","P","L","E","S">> }

SeqsUpTo(S, n) == UNION { [1..k -> S] : k \in 0..n }

SecInit ==
    /\ sec_lines \in SeqsUpTo(SecLinePool, MaxSecLines)
    /\ section_name \in SecLabels
    /\ sec_result = <<>>
    /\ sec_done = FALSE
    /\ CatIdle
    /\ FmIdle
    /\ MainIdle

ExtractSection ==
    /\ ~sec_done
    /\ sec_result' = extract_section(JoinLines(sec_lines), section_name)
    /\ sec_done' = TRUE
    /\ UNCHANGED <<sec_lines, section_name, cat_vars, fm_vars, main_vars>>

SecNext == ExtractSection

SpecSection == SecInit /\ [][SecNext]_vars

\* a line '## <label>' (any case), with at most whitespace after the label
IsHeadingFor(line, label) ==
    /\ MatchAtI(line, 1, <<"#","#"," ">> \o label)
    /\ \A k \in (Len(label) + 4)..Len(line) : IsSpace(line[k])

\* a line that opens a '## ' heading, whatever its name
IsHeadingLine(line) == MatchAt(line, 1, <<"#","#"," ">>)

\* the lines strictly between the first '## <label>' heading line and the
\* next '## ' heading line (or the end), joined and trimmed
SectionBetweenHeadings(lines, label) ==
    IF \A h \in 1..Len(lines) : ~IsHeadingFor(lines[h], label) THEN <<>>
    ELSE LET h == MinOf({ k \in 1..Len(lines) : IsHeadingFor(lines[k], label) })
             n == MinOf({ k \in (h + 1)..(Len(lines) + 1) :
                            k = Len(lines) + 1 \/ IsHeadingLine(lines[k]) })
         IN  Strip(JoinLines(SubSeq(lines, h + 1, n - 1)))

\* C4: the result is the text between the '## <label>' heading line and
\* the next '## ' heading line (or the end of the document), trimmed: it
\* never holds the next heading or anything after it, and is empty when
\* the labelled section has no body.
C4_SectionBoundedByNextHeading ==
    sec_done => sec_result = SectionBetweenHeadings(sec_lines, section_name)

----------------------------------------------------------------------------
(* parse_front_matter                                                      *)

QuoteChars == {"\"", "'"}

\* the lazy (.*?\n) before '---': the first line break from e on that is
\* followed by '---', 0 when there is none
BlockEnd(text, e) ==
    FirstIn(e, Len(text), LAMBDA k : text[k] = "\n" /\ MatchAt(text, k + 1, <<"-","-","-">>))

\* the greedy \s* followed by \n, backtracking from the end of the
\* whitespace run lo..hi-1: group(1) for the last line break after which
\* the rest of the pattern matches; <<FALSE, <<>> >> when none does
FrontBlock(text, lo, hi) ==
    LET nl == LastIn(lo, hi - 1, LAMBDA k : text[k] = "\n" /\ BlockEnd(text, k + 1) # 0)
    IN  IF nl = 0 THEN <<FALSE, <<>> >>
        ELSE <<TRUE, SubSeq(text, nl + 1, BlockEnd(text, nl + 1))>>

\* re.match(r'^---\s*\n(.*?\n)---', text, re.DOTALL)
FrontMatch(text) ==
    IF MatchAt(text, 1, <<"-","-","-">>) THEN FrontBlock(text, 4, SpaceRunEnd(text, 4))
    ELSE <<FALSE, <<>> >>

\* result[key] = value
DictSet(d, key, value) ==
    [k \in (DOMAIN d) \cup {key} |-> IF k = key THEN value ELSE d[k]]

\* d.get(key, default)
DictGet(d, key, default) == IF key \in DOMAIN d THEN d[key] ELSE default

\* kv[1].strip().strip('"\'')
FrontValue(raw) == StripChars(Strip(raw), QuoteChars)

\* a value unwrapped of one pair of equal quotes only
FrontValueOneLayer(raw) ==
    LET v == Strip(raw)
    IN  IF Len(v) >= 2 /\ v[1] \in QuoteChars /\ v[Len(v)] = v[1]
        THEN SubSeq(v, 2, Len(v) - 1) ELSE v

\* the for loop over block.splitlines(), from line i on
RECURSIVE FrontLoop(_, _, _)
FrontLoop(lines, i, result) ==
    IF i > Len(lines) THEN result
    ELSE IF IndexOf(lines[i], ":") # 0
         THEN FrontLoop(lines, i + 1,
                DictSet(result,
                        Strip(SubSeq(lines[i], 1, IndexOf(lines[i], ":") - 1)),
                        FrontValue(Tail0(lines[i], IndexOf(lines[i], ":") + 1))))
    ELSE FrontLoop(lines, i + 1, result)

parse_front_matter(text) ==
    IF ~FrontMatch(text)[1] THEN <<>>
    ELSE FrontLoop(splitlines(FrontMatch(text)[2]), 1, <<>>)

----------------------------------------------------------------------------
(* parse_front_matter on its own: every document whose front matter holds  *)
(* at most MaxFmLines lines of FmLinePool, and the same lines without the  *)
(* '---' block around them.                                                *)

MaxFmLines == 3

FmLinePool == {
    <<"t","i","t","l","e",":"," ","\"","G","e","t","-","F","o","o","\"">>,
    <<"t","i","t","l","e",":"," ","G","e","t","-","B","a","r">>,
    <<"M","o","d","u","l","e"," ","N","a","m","e",":"," ","'","E","x","c","h","a","n","g","e","P","o","w","e","r","S","h","e","l","l","'">>,
    <<"a","u","t","h","o","r",":"," ","\"","c","h","r","i","s","d","a">>,
    <<"n","o","t","e",":"," ","\"","\"","x","\"","\"">>,
    <<" ","o","n","l","i","n","e"," ","v","e","r","s","i","o","n"," ",":"," ","h","t","t","p","s",":","/","/","a","k","a",".","m","s","/","x"," ">>,
    <<"s","c","h","e","m","a"," ","2",".","0",".","0">>,
    <<>> }

FmText(lines, wrapped) ==
    IF wrapped THEN <<"-","-","-","\n">> \o JoinLines(lines) \o <<"\n","-","-","-","\n","\n","#"," ","G","e","t","-","F","o","o","\n">>
    ELSE JoinLines(lines) \o <<"\n","\n","#"," ","G","e","t","-","F","o","o","\n">>

FmInit ==
    /\ fm_lines \in SeqsUpTo(FmLinePool, MaxFmLines) \ {<<>>}
    /\ fm_wrapped \in BOOLEAN
    /\ fm_result = <<>>
    /\ fm_done = FALSE
    /\ CatIdle
    /\ SecIdle
    /\ MainIdle

ParseFrontMatter ==
    /\ ~fm_done
    /\ fm_result' = parse_front_matter(FmText(fm_lines, fm_wrapped))
    /\ fm_done' = TRUE
    /\ UNCHANGED <<fm_lines, fm_wrapped, cat_vars, sec_vars, main_vars>>

FmNext == ParseFrontMatter

SpecFrontMatter == FmInit /\ [][FmNext]_vars

HasColon(line) == \E k \in 1..Len(line) : line[k] = ":"

FirstColon(line) == MinOf({ k \in 1..Len(line) : line[k] = ":" })

KeyOfLine(line) == Strip(SubSeq(line, 1, FirstColon(line) - 1))

RawValueOfLine(line) == SubSeq(line, FirstColon(line) + 1, Len(line))

\* C10: for every front-matter body line with a colon, the mapping holds,
\* under the trimmed text before the first colon, the text after it,
\* trimmed and unwrapped of exactly one layer of matching quotes (more
\* quotes, or a quote on one side only, stay in the value); of several
\* lines with one key, the last decides.
C10_OneQuoteLayerLastWins ==
    (fm_done /\ fm_wrapped) =>
        \A i \in 1..Len(fm_lines) :
            (/\ HasColon(fm_lines[i])
             /\ \A j \in (i + 1)..Len(fm_lines) :
                    HasColon(fm_lines[j]) => KeyOfLine(fm_lines[j]) # KeyOfLine(fm_lines[i]))
            => /\ KeyOfLine(fm_lines[i]) \in DOMAIN fm_result
               /\ fm_result[KeyOfLine(fm_lines[i])] = FrontValueOneLayer(RawValueOfLine(fm_lines[i]))

----------------------------------------------------------------------------
(* VERB_RE, CMDLET_RE                                                      *)

\* end of the greedy [a-z]+ that follows the [A-Z] at position 1: the first
\* position from 2 on that holds no lower-case letter
LowerRunEnd(name) ==
    IF FirstIn(2, Len(name), LAMBDA k : ~IsLower(name[k])) = 0 THEN Len(name) + 1
    ELSE FirstIn(2, Len(name), LAMBDA k : ~IsLower(name[k]))

\* VERB_RE.match(name): ^([A-Z][a-z]+)-
VERB_RE_match(name) ==
    /\ Len(name) >= 3
    /\ IsUpper(name[1])
    /\ LowerRunEnd(name) >= 3
    /\ LowerRunEnd(name) <= Len(name)
    /\ name[LowerRunEnd(name)] = "-"

\* a pattern that accepts any text
CMDLET_RE_match_anything(name) == TRUE

\* CMDLET_RE.match(name): ^[A-Z][a-z]+-[A-Z]\w+, anchored at the start only
CMDLET_RE_match(name) ==
    /\ VERB_RE_match(name)
    /\ LowerRunEnd(name) + 2 <= Len(name)
    /\ IsUpper(name[LowerRunEnd(name) + 1])
    /\ IsWord(name[LowerRunEnd(name) + 2])

\* vm.group(1) if vm else 'Other'
VerbOf(name) ==
    IF VERB_RE_match(name) THEN SubSeq(name, 1, LowerRunEnd(name) - 1) ELSE <<"O","t","h","e","r">>

----------------------------------------------------------------------------
(* extract_code_blocks                                                     *)

FENCE == <<BackQuote,BackQuote,BackQuote>>

\* (?:powershell|ps1|posh)? at position p: the length of the alternative
\* that stands there, 0 for none
RECURSIVE LangLenAt(_, _, _, _)
LangLenAt(text, p, langs, a) ==
    IF a > Len(langs) THEN 0
    ELSE IF MatchAtI(text, p, langs[a]) THEN Len(langs[a])
    ELSE LangLenAt(text, p, langs, a + 1)

FenceLangs == << <<"p","o","w","e","r","s","h","e","l","l">>, <<"p","s","1">>, <<"p","o","s","h">> >>

\* where the body of a block opened at position i starts: after the last
\* line break of the whitespace that follows the fence and its language
\* tag; 0 when no line break follows
BlockBodyStart(text, i, optlang) ==
    LET p == i + 3 + optlang
        nl == LastNewline(text, p, SpaceRunEnd(text, p))
    IN  IF nl = 0 THEN 0 ELSE nl + 1

\* the closing fence: the first FENCE from position b on, 0 when none
ClosingFence(text, b) == FirstIn(b, Len(text), LAMBDA k : MatchAt(text, k, FENCE))

\* the pattern FENCE(?:powershell|ps1|posh)?\s*\n(.*?)FENCE matches at i, the
\* optional tag taken (its length) or left out (0)
FenceMatchWith(text, i, optlang) ==
    /\ MatchAt(text, i, FENCE)
    /\ BlockBodyStart(text, i, optlang) # 0
    /\ ClosingFence(text, BlockBodyStart(text, i, optlang)) # 0

\* the tag length the match at i uses: the tag first, then without it
FenceLang(text, i) ==
    IF FenceMatchWith(text, i, LangLenAt(text, i + 3, FenceLangs, 1))
    THEN LangLenAt(text, i + 3, FenceLangs, 1) ELSE 0

FenceMatchAt(text, i) == FenceMatchWith(text, i, FenceLang(text, i))

\* re.findall(..., re.DOTALL | re.IGNORECASE) from position 'from' on: the
\* bodies of the non-overlapping matches, left to right
RECURSIVE FindBlocks(_, _)
FindBlocks(text, from) ==
    LET i == FirstIn(from, Len(text), LAMBDA k : FenceMatchAt(text, k))
    IN  IF i = 0 THEN <<>>
        ELSE LET b == BlockBodyStart(text, i, FenceLang(text, i))
                 e == ClosingFence(text, b)
             IN  <<SubSeq(text, b, e - 1)>> \o FindBlocks(text, e + 3)

\* l.strip().startswith('#')
IsCommentLine(l) == Strip(l) # <<>> /\ Strip(l)[1] = "#"

\* [l for l in lines if not l.strip().startswith('#')]
RECURSIVE DropCommentLines(_)
DropCommentLines(lines) ==
    IF lines = <<>> THEN <<>>
    ELSE IF IsCommentLine(Head(lines)) THEN DropCommentLines(Tail(lines))
    ELSE <<Head(lines)>> \o DropCommentLines(Tail(lines))

\* one block, cleaned
CleanBlock(b) == Strip(JoinLines(DropCommentLines(splitlines(Strip(b)))))

\* the for loop over blocks[:max_blocks]
RECURSIVE CleanBlocks(_)
CleanBlocks(blocks) ==
    IF blocks = <<>> THEN <<>>
    ELSE IF CleanBlock(Head(blocks)) # <<>>
         THEN <<CleanBlock(Head(blocks))>> \o CleanBlocks(Tail(blocks))
    ELSE CleanBlocks(Tail(blocks))

Min2(a, b) == IF a <= b THEN a ELSE b

extract_code_blocks(section_text, max_blocks) ==
    CleanBlocks(SubSeq(FindBlocks(section_text, 1), 1,
                       Min2(max_blocks, Len(FindBlocks(section_text, 1)))))

----------------------------------------------------------------------------
(* The description clean-up of parse_cmdlet_doc                            *)

\* \[([^\]]+)\]\([^)]+\) at position i: <<end of the match, group(1)>>
\* when it matches, <<0, <<>> >> otherwise
LinkAt(s, i) ==
    LET rb == IndexFrom(s, "]", i + 1)
        rp == IF rb = 0 THEN 0 ELSE IndexFrom(s, ")", rb + 2)
    IN  IF /\ i <= Len(s)
           /\ s[i] = "["
           /\ rb > i + 1
           /\ rb + 1 <= Len(s)
           /\ s[rb + 1] = "("
           /\ rp > rb + 2
        THEN <<rp, SubSeq(s, i + 1, rb - 1)>>
        ELSE <<0, <<>> >>

\* re.sub(r'\[([^\]]+)\]\([^)]+\)', r'\1', s) from position 'from' on
RECURSIVE SubLinks(_, _)
SubLinks(s, from) ==
    LET i == FirstIn(from, Len(s), LAMBDA k : LinkAt(s, k)[1] # 0)
    IN  IF i = 0 THEN SubSeq(s, from, Len(s))
        ELSE SubSeq(s, from, i - 1) \o LinkAt(s, i)[2] \o SubLinks(s, LinkAt(s, i)[1] + 1)

IsNotMarkup(c) == c \notin {"*", "_", BackQuote}

\* re.sub of the markup characters (asterisk, underscore, backquote) by ''
SubMarkup(s) == SelectSeq(s, IsNotMarkup)

\* lines 165-169
DescriptionOf(text) ==
    LET synopsis_sec == extract_section(text, <<"S","Y","N","O","P","S","I","S">>)
        first == IF synopsis_sec # <<>> THEN Strip(splitlines(synopsis_sec)[1]) ELSE <<>>
    IN  Strip(SubMarkup(SubLinks(first, 1)))

----------------------------------------------------------------------------
(* parse_cmdlet_doc                                                        *)

\* the return value None
None == [is_none |-> TRUE]

\* x or y, on strings
StrOr(x, y) == IF x # <<>> THEN x ELSE y

parse_cmdlet_doc(stem, text, workload_name) ==
    LET front == parse_front_matter(text)
        name == StrOr(DictGet(front, <<"t","i","t","l","e">>, <<>>), stem)
        syntax_blocks == extract_code_blocks(extract_section(text, <<"S","Y","N","T","A","X">>), 1)
    IN  IF ~CMDLET_RE_match(name) THEN None
        ELSE [is_none |-> FALSE,
              name |-> name,
              module |-> StrOr(DictGet(front, <<"M","o","d","u","l","e"," ","N","a","m","e">>, <<>>), workload_name),
              category |-> IF workload_name = <<"E","x","c","h","a","n","g","e">>
                           THEN get_exchange_category(name) ELSE workload_name,
              description |-> DescriptionOf(text),
              syntax |-> IF syntax_blocks # <<>> THEN syntax_blocks[1] ELSE <<>>,
              examples |-> extract_code_blocks(extract_section(text, <<"E","X","A","M","P","L","E","S">>), 3)]

----------------------------------------------------------------------------
(* main: the tables                                                        *)

WORKLOAD_DIRS == <<
    [rel_path |-> "exchange/exchange-ps/ExchangePowerShell", workload_name |-> <<"E","x","c","h","a","n","g","e">>],
    [rel_path |-> "teams/teams-ps/MicrosoftTeams", workload_name |-> <<"T","e","a","m","s">>],
    [rel_path |-> "skype/skype-ps/SkypeForBusiness", workload_name |-> <<"S","k","y","p","e"," ","f","o","r"," ","B","u","s","i","n","e","s","s">>],
    [rel_path |-> "whiteboard/whiteboard-ps/WhiteboardAdmin", workload_name |-> <<"W","h","i","t","e","b","o","a","r","d">>],
    [rel_path |-> "officewebapps/officewebapps-ps/officewebapps", workload_name |-> <<"O","f","f","i","c","e"," ","W","e","b"," ","A","p","p","s">>],
    [rel_path |-> "spmt/spmt-ps/Microsoft.SharePoint.MigrationTool.PowerShell",
     workload_name |-> <<"S","h","a","r","e","P","o","i","n","t"," ","M","i","g","r","a","t","i","o","n">>]
>>

\* in the key order of the dict
MODULE_PACKAGE_MAP == <<
    [module_name |-> <<"E","x","c","h","a","n","g","e","P","o","w","e","r","S","h","e","l","l">>, package_name |-> "ExchangeOnlineManagement"],
    [module_name |-> <<"M","i","c","r","o","s","o","f","t","T","e","a","m","s">>, package_name |-> "MicrosoftTeams"],
    [module_name |-> <<"S","k","y","p","e","F","o","r","B","u","s","i","n","e","s","s">>, package_name |-> "SkypeOnlineConnector"],
    [module_name |-> <<"W","h","i","t","e","b","o","a","r","d","A","d","m","i","n">>, package_name |-> "WhiteboardAdmin"],
    [module_name |-> <<"M","i","c","r","o","s","o","f","t",".","S","h","a","r","e","P","o","i","n","t",".","M","i","g","r","a","t","i","o","n","T","o","o","l",".","P","o","w","e","r","S","h","e","l","l">>,
     package_name |-> "Microsoft.SharePoint.MigrationTool"]
>>

----------------------------------------------------------------------------
(* The input of a run: the *.md files the docs root may hold, listed in    *)
(* the order the traversal meets them (WORKLOAD_DIRS order, then sorted by *)
(* path). A run finds any subset of them.                                  *)

\* a file of the given lines, each ended by a line break
FileText(lines) == JoinLines(lines) \o <<"\n">>

DocPool == <<
    \* 1: a full cmdlet page
    [dir |-> 1, stem |-> <<"G","e","t","-","M","a","i","l","b","o","x">>,
     text |-> FileText(<< <<"-","-","-">>, <<"t","i","t","l","e",":"," ","G","e","t","-","M","a","i","l","b","o","x">>, <<"M","o","d","u","l","e"," ","N","a","m","e",":"," ","E","x","c","h","a","n","g","e","P","o","w","e","r","S","h","e","l","l">>, <<"-","-","-">>,
                          <<"#","#"," ","S","Y","N","O","P","S","I","S">>, <<"V","i","e","w"," ","*","m","a","i","l","b","o","x","e","s","*",".">>,
                          <<"#","#"," ","S","Y","N","T","A","X">>, <<BackQuote,BackQuote,BackQuote>>, <<"G","e","t","-","M","a","i","l","b","o","x">>, <<BackQuote,BackQuote,BackQuote>>,
                          <<"#","#"," ","E","X","A","M","P","L","E","S">>, <<BackQuote,BackQuote,BackQuote,"p","o","w","e","r","s","h","e","l","l">>, <<"#"," ","a","l","l">>, <<"G","e","t","-","M","a","i","l","b","o","x"," ","-","A","l","l">>, <<BackQuote,BackQuote,BackQuote>> >>)],
    \* 2: a second page with the same title and module, other syntax
    [dir |-> 1, stem |-> <<"G","e","t","-","M","a","i","l","b","o","x","V","2">>,
     text |-> FileText(<< <<"-","-","-">>, <<"t","i","t","l","e",":"," ","\"","G","e","t","-","M","a","i","l","b","o","x","\"">>, <<"M","o","d","u","l","e"," ","N","a","m","e",":"," ","E","x","c","h","a","n","g","e","P","o","w","e","r","S","h","e","l","l">>, <<"-","-","-">>,
                          <<"#","#"," ","S","Y","N","O","P","S","I","S">>, <<"S","e","e"," ","[","G","e","t","-","M","a","i","l","b","o","x","]","(","a",".","m","d",")",".">>,
                          <<"#","#"," ","S","Y","N","T","A","X">>, <<BackQuote,BackQuote,BackQuote>>, <<"G","e","t","-","M","a","i","l","b","o","x"," ","-","V","2">>, <<BackQuote,BackQuote,BackQuote>> >>)],
    \* 3: no front matter, no synopsis: named by its file, module 'Exchange'
    [dir |-> 1, stem |-> <<"S","e","t","-","C","A","S","M","a","i","l","b","o","x">>,
     text |-> FileText(<< <<"#","#"," ","S","Y","N","T","A","X">>, <<BackQuote,BackQuote,BackQuote>>, <<"S","e","t","-","C","A","S","M","a","i","l","b","o","x">>, <<BackQuote,BackQuote,BackQuote>> >>)],
    \* 4: not a cmdlet page
    [dir |-> 1, stem |-> <<"r","e","a","d","m","e">>,
     text |-> FileText(<< <<"#"," ","A","b","o","u","t">>, <<"#","#"," ","S","Y","N","O","P","S","I","S">>, <<"R","e","a","d"," ","m","e",".">> >>)],
    \* 5: a cmdlet-shaped file name under a title that is no cmdlet name
    [dir |-> 2, stem |-> <<"G","e","t","-","T","e","a","m">>,
     text |-> FileText(<< <<"-","-","-">>, <<"t","i","t","l","e",":"," ","a","b","o","u","t"," ","t","e","a","m","s">>, <<"-","-","-">>, <<"#","#"," ","S","Y","N","O","P","S","I","S">>, <<"T","e","a","m","s",".">> >>)],
    \* 6
    [dir |-> 2, stem |-> <<"N","e","w","-","T","e","a","m">>,
     text |-> FileText(<< <<"-","-","-">>, <<"M","o","d","u","l","e"," ","N","a","m","e",":"," ","M","i","c","r","o","s","o","f","t","T","e","a","m","s">>, <<"-","-","-">>,
                          <<"#","#"," ","S","Y","N","O","P","S","I","S">>, <<"N","e","w"," ","t","e","a","m",".">>,
                          <<"#","#"," ","E","X","A","M","P","L","E","S">>, <<BackQuote,BackQuote,BackQuote>>, <<"N","e","w","-","T","e","a","m">>, <<BackQuote,BackQuote,BackQuote>> >>)],
    \* 7: module 'Skype for Business', from the workload
    [dir |-> 3, stem |-> <<"G","e","t","-","C","s","U","s","e","r">>,
     text |-> FileText(<< <<"#","#"," ","S","Y","N","O","P","S","I","S">>, <<"G","e","t"," ","u","s","e","r",".">> >>)],
    \* 8: module 'Skype_for_Business', from the front matter
    [dir |-> 3, stem |-> <<"S","e","t","-","C","s","U","s","e","r">>,
     text |-> FileText(<< <<"-","-","-">>, <<"M","o","d","u","l","e"," ","N","a","m","e",":"," ","S","k","y","p","e","_","f","o","r","_","B","u","s","i","n","e","s","s">>, <<"-","-","-">>,
                          <<"#","#"," ","S","Y","N","O","P","S","I","S">>, <<"S","e","t"," ","u","s","e","r",".">> >>)]
>>

\* the files a run may visit in all
MaxFiles == 4

\* the version strings the gallery may answer with
GalleryVersions == { <<"3",".","4",".","0">> }

----------------------------------------------------------------------------
(* main: the state after the set-up, before the versions are fetched       *)

Init ==
    /\ pc = "fetch"
    /\ raised = ""
    /\ fetch_i = 1
    /\ module_versions = <<>>
    /\ wl = 1
    /\ in_dir = FALSE
    /\ last_file = 0
    /\ visited = <<>>
    /\ manifest_entries = <<>>
    /\ descriptions = <<>>
    /\ modules_data = <<>>
    /\ module_order = <<>>
    /\ manifest_file = <<>>
    /\ descriptions_file = <<>>
    /\ module_files = <<>>
    /\ write_i = 1
    /\ CatIdle
    /\ SecIdle
    /\ FmIdle

pure_vars == <<cat_vars, sec_vars, fm_vars>>

----------------------------------------------------------------------------
(* fetch_module_versions: one step per entry of MODULE_PACKAGE_MAP         *)

\* the response holds a d:Version element
FetchVersion ==
    /\ pc = "fetch"
    /\ fetch_i <= Len(MODULE_PACKAGE_MAP)
    /\ \E ver \in GalleryVersions :
          module_versions' = DictSet(module_versions, MODULE_PACKAGE_MAP[fetch_i].module_name, ver)
    /\ fetch_i' = fetch_i + 1
    /\ UNCHANGED <<pc, raised, walk_vars, acc_vars, out_vars, pure_vars>>

\* the response holds none: fetch_gallery_version returns ''
FetchNoVersion ==
    /\ pc = "fetch"
    /\ fetch_i <= Len(MODULE_PACKAGE_MAP)
    /\ fetch_i' = fetch_i + 1
    /\ UNCHANGED <<pc, raised, module_versions, walk_vars, acc_vars, out_vars, pure_vars>>

\* urlopen or read raises urllib.error.URLError or another OSError: caught,
\* a warning is printed, fetch_gallery_version returns ''
FetchFailsCaught ==
    /\ pc = "fetch"
    /\ fetch_i <= Len(MODULE_PACKAGE_MAP)
    /\ fetch_i' = fetch_i + 1
    /\ UNCHANGED <<pc, raised, module_versions, walk_vars, acc_vars, out_vars, pure_vars>>

\* urlopen, read or decode raises an exception that is no OSError
\* (http.client.IncompleteRead or BadStatusLine, UnicodeDecodeError): the
\* except clause does not name it and nothing up to main catches it
FetchFailsUncaught ==
    /\ pc = "fetch"
    /\ fetch_i <= Len(MODULE_PACKAGE_MAP)
    /\ pc' = "raised"
    /\ raised' = "fetch_gallery_version"
    /\ UNCHANGED <<fetch_vars, walk_vars, acc_vars, out_vars, pure_vars>>

FetchDone ==
    /\ pc = "fetch"
    /\ fetch_i > Len(MODULE_PACKAGE_MAP)
    /\ pc' = "walk"
    /\ UNCHANGED <<raised, fetch_vars, walk_vars, acc_vars, out_vars, pure_vars>>

----------------------------------------------------------------------------
(* main: the loop over WORKLOAD_DIRS and over each directory's files       *)

\* the record appended to manifest_entries
ManifestRecord(result) ==
    [n |-> result.name,
     v |-> VerbOf(result.name),
     m |-> result.module,
     c |-> result.category,
     e |-> result.examples # <<>>]

\* a manifest that holds one record per name
AppendEntryOncePerName(entries, result) ==
    IF \E k \in 1..Len(entries) : entries[k].n = result.name THEN entries
    ELSE Append(entries, ManifestRecord(result))

\* manifest_entries.append({...})
AppendEntry(entries, result) == Append(entries, ManifestRecord(result))

\* if result['description']: descriptions[cname] = result['description']
SetDescription(descs, result) ==
    IF result.description # <<>> THEN DictSet(descs, result.name, result.description)
    ELSE descs

\* a shard store that keeps the first cmdlet under a name
SetCmdletKeepFirst(mods, versions, result) ==
    LET module == result.module
        shard == IF module \in DOMAIN mods THEN mods[module]
                 ELSE [module |-> module,
                       version |-> DictGet(versions, module, <<>>),
                       cmdlets |-> <<>>]
    IN  DictSet(mods, module,
                [shard EXCEPT !.cmdlets =
                    IF result.name \in DOMAIN shard.cmdlets THEN shard.cmdlets
                    ELSE DictSet(shard.cmdlets, result.name,
                                 [syntax |-> result.syntax, examples |-> result.examples])])

\* if module not in modules_data: modules_data[module] = {...}
\* modules_data[module]['cmdlets'][cname] = {...}
SetCmdlet(mods, versions, result) ==
    LET module == result.module
        shard == IF module \in DOMAIN mods THEN mods[module]
                 ELSE [module |-> module,
                       version |-> DictGet(versions, module, <<>>),
                       cmdlets |-> <<>>]
    IN  DictSet(mods, module,
                [shard EXCEPT !.cmdlets =
                    DictSet(shard.cmdlets, result.name,
                            [syntax |-> result.syntax, examples |-> result.examples])])

\* workload_dir is no directory: a warning, and on to the next workload
MissingDir ==
    /\ pc = "walk"
    /\ ~in_dir
    /\ wl <= Len(WORKLOAD_DIRS)
    /\ wl' = wl + 1
    /\ UNCHANGED <<pc, raised, fetch_vars, in_dir, last_file, visited, acc_vars, out_vars, pure_vars>>

\* workload_dir is a directory: its *.md files are listed, sorted
EnterDir ==
    /\ pc = "walk"
    /\ ~in_dir
    /\ wl <= Len(WORKLOAD_DIRS)
    /\ in_dir' = TRUE
    /\ last_file' = 0
    /\ UNCHANGED <<pc, raised, fetch_vars, wl, visited, acc_vars, out_vars, pure_vars>>

\* the files of the pool the file loop may take next
NextFiles ==
    { d \in 1..Len(DocPool) : DocPool[d].dir = wl /\ d > last_file }

\* parse_cmdlet_doc(md_file, workload_name) for file d of the pool
ParseFile(d) ==
    parse_cmdlet_doc(DocPool[d].stem, DocPool[d].text, WORKLOAD_DIRS[DocPool[d].dir].workload_name)

\* one pass of the file loop, the file read without error
ProcessFile(d) ==
    /\ pc = "walk"
    /\ in_dir
    /\ d \in NextFiles
    /\ Len(visited) < MaxFiles
    /\ last_file' = d
    /\ visited' = Append(visited, d)
    /\ \E result \in {ParseFile(d)} :
          IF result.is_none
          THEN UNCHANGED acc_vars
          ELSE /\ manifest_entries' = AppendEntry(manifest_entries, result)
               /\ descriptions' = SetDescription(descriptions, result)
               /\ modules_data' = SetCmdlet(modules_data, module_versions, result)
               /\ module_order' = IF result.module \in DOMAIN modules_data THEN module_order
                                  ELSE Append(module_order, result.module)
    /\ UNCHANGED <<pc, raised, fetch_vars, wl, in_dir, out_vars, pure_vars>>

\* Path(filepath).read_text raises OSError (the entry is a directory named
\* *.md, a dangling link, an unreadable file): parse_cmdlet_doc and main
\* catch nothing, the exception ends the run
ReadFails(d) ==
    /\ pc = "walk"
    /\ in_dir
    /\ d \in NextFiles
    /\ Len(visited) < MaxFiles
    /\ pc' = "raised"
    /\ raised' = "read_text"
    /\ last_file' = d
    /\ UNCHANGED <<fetch_vars, wl, in_dir, visited, acc_vars, out_vars, pure_vars>>

\* the file loop is over
LeaveDir ==
    /\ pc = "walk"
    /\ in_dir
    /\ in_dir' = FALSE
    /\ wl' = wl + 1
    /\ UNCHANGED <<pc, raised, fetch_vars, last_file, visited, acc_vars, out_vars, pure_vars>>

----------------------------------------------------------------------------
(* main: the files written                                                 *)

\* mod_name.replace(' ', '_')
ReplaceSpaces(s) == [k \in 1..Len(s) |-> IF s[k] = " " THEN "_" ELSE s[k]]

\* f'{safe_name}.json'
ModuleFileName(mod_name) == ReplaceSpaces(mod_name) \o <<".","j","s","o","n">>

\* module_versions.get('ExchangePowerShell', '0.0.0')
PrimaryVersion == DictGet(module_versions, <<"E","x","c","h","a","n","g","e","P","o","w","e","r","S","h","e","l","l">>, <<"0",".","0",".","0">>)

WriteManifest ==
    /\ pc = "walk"
    /\ ~in_dir
    /\ wl > Len(WORKLOAD_DIRS)
    /\ manifest_file' = <<[v |-> PrimaryVersion, d |-> manifest_entries]>>
    /\ pc' = "write_descriptions"
    /\ UNCHANGED <<raised, fetch_vars, walk_vars, acc_vars, descriptions_file, module_files, write_i,
                   pure_vars>>

WriteDescriptions ==
    /\ pc = "write_descriptions"
    /\ descriptions_file' = <<descriptions>>
    /\ pc' = "write_modules"
    /\ UNCHANGED <<raised, fetch_vars, walk_vars, acc_vars, manifest_file, module_files, write_i,
                   pure_vars>>

\* one pass of the loop over modules_data.items(): the file is opened with
\* mode 'w', which replaces a file of that name
WriteModule ==
    /\ pc = "write_modules"
    /\ write_i <= Len(module_order)
    /\ module_files' = DictSet(module_files, ModuleFileName(module_order[write_i]),
                               modules_data[module_order[write_i]])
    /\ write_i' = write_i + 1
    /\ UNCHANGED <<pc, raised, fetch_vars, walk_vars, acc_vars, manifest_file, descriptions_file,
                   pure_vars>>

Finish ==
    /\ pc = "write_modules"
    /\ write_i > Len(module_order)
    /\ pc' = "done"
    /\ UNCHANGED <<raised, fetch_vars, walk_vars, acc_vars, out_vars, pure_vars>>

Next ==
    \/ FetchVersion
    \/ FetchNoVersion
    \/ FetchFailsCaught
    \/ FetchFailsUncaught
    \/ FetchDone
    \/ MissingDir
    \/ EnterDir
    \/ \E d \in 1..Len(DocPool) : ProcessFile(d)
    \/ \E d \in 1..Len(DocPool) : ReadFails(d)
    \/ LeaveDir
    \/ WriteManifest
    \/ WriteDescriptions
    \/ WriteModule
    \/ Finish

Spec == Init /\ [][Next]_vars

----------------------------------------------------------------------------
(* Properties of main                                                      *)

\* what parse_cmdlet_doc returns for each file of the pool
Parsed == [d \in 1..Len(DocPool) |-> ParseFile(d)]

\* file d of the pool is one the parser accepted
Accepted(d) == ~Parsed[d].is_none

\* the files visited so far that the parser accepted, in the order visited
AcceptedVisited == SelectSeq(visited, Accepted)

\* s is a prefix of t
IsPrefix(s, t) == Len(s) <= Len(t) /\ SubSeq(t, 1, Len(s)) = s

\* the text of name before its first '-'
TextBeforeHyphen(name) == SubSeq(name, 1, IndexOf(name, "-") - 1)

\* entry is the manifest record of the parser's result r
IsRecordOf(entry, r) ==
    /\ entry.n = r.name
    /\ entry.v = TextBeforeHyphen(r.name)
    /\ entry.m = r.module
    /\ entry.c = r.category
    /\ entry.e = (Len(r.examples) > 0)

\* the manifest holds one record per accepted file, in the order visited
ManifestIsAcceptedInOrder ==
    /\ Len(manifest_entries) = Len(AcceptedVisited)
    /\ \A k \in 1..Len(manifest_entries) :
          IsRecordOf(manifest_entries[k], Parsed[AcceptedVisited[k]])

\* C1: Manifest.entries holds exactly one record per document the parser
\* accepted, duplicates of a name included, in the order the documents were
\* processed; every step of the program leaves the earlier entries in place
\* as a prefix of the later ones, so none is removed or reordered.
C1_ManifestAppendOnly ==
    /\ []ManifestIsAcceptedInOrder
    /\ [][IsPrefix(manifest_entries, manifest_entries')]_vars

\* C1: three files were processed, one of them rejected, and the two
\* accepted ones carry the same name: both have their record, in order
C1_Witness ==
    /\ Len(visited) = 3
    /\ Len(manifest_entries) = 2
    /\ manifest_entries[1].n = manifest_entries[2].n
    /\ manifest_entries[1].e
    /\ ~manifest_entries[2].e

\* the positions of visited that hold an accepted file of group g
SeenIn(g) ==
    { k \in 1..Len(visited) : Accepted(visited[k]) /\ Parsed[visited[k]].module = g }

\* the positions of visited that hold an accepted file of group g and name n
SeenAs(g, n) == { k \in SeenIn(g) : Parsed[visited[k]].name = n }

\* the groups of the entries seen so far
GroupsSeen == { Parsed[visited[k]].module : k \in { j \in 1..Len(visited) : Accepted(visited[j]) } }

\* the largest member of a non-empty set of numbers
MaxOf(S) == CHOOSE x \in S : \A y \in S : y <= x

\* the version supplied for group g: the fetched one, or the empty string
SuppliedVersion(g) ==
    IF g \in DOMAIN module_versions THEN module_versions[g] ELSE <<>>

ShardsHoldLastEntry ==
    /\ DOMAIN modules_data = GroupsSeen
    /\ \A g \in GroupsSeen :
          /\ modules_data[g].module = g
          /\ modules_data[g].version = SuppliedVersion(g)
          /\ DOMAIN modules_data[g].cmdlets = { Parsed[visited[k]].name : k \in SeenIn(g) }
          /\ \A k \in SeenIn(g) :
                LET n == Parsed[visited[k]].name
                    last == Parsed[visited[MaxOf(SeenAs(g, n))]]
                IN  /\ modules_data[g].cmdlets[n].syntax = last.syntax
                    /\ modules_data[g].cmdlets[n].examples = last.examples

ShardVersionsKept ==
    \A g \in DOMAIN modules_data :
        /\ g \in DOMAIN modules_data'
        /\ modules_data'[g].version = modules_data[g].version

\* C2: a ModuleShard exists for exactly the groups of the entries seen so
\* far; under every name seen in a group the shard holds the syntax and the
\* examples of the last entry processed with that group and name; the
\* shard's version is the version supplied for the group (the empty string
\* when none was), and no step changes the version of an existing shard.
C2_ShardAccumulation ==
    /\ []ShardsHoldLastEntry
    /\ [][ShardVersionsKept]_vars

\* C2: two entries of the same group and name were processed, the shard
\* holds the syntax of the second and the version fetched for the group
C2_Witness ==
    /\ visited = <<1, 2>>
    /\ modules_data[ <<"E","x","c","h","a","n","g","e","P","o","w","e","r","S","h","e","l","l">> ].cmdlets[ <<"G","e","t","-","M","a","i","l","b","o","x">> ].syntax = <<"G","e","t","-","M","a","i","l","b","o","x"," ","-","V","2">>
    /\ modules_data[ <<"E","x","c","h","a","n","g","e","P","o","w","e","r","S","h","e","l","l">> ].cmdlets[ <<"G","e","t","-","M","a","i","l","b","o","x">> ].examples = <<>>
    /\ modules_data[ <<"E","x","c","h","a","n","g","e","P","o","w","e","r","S","h","e","l","l">> ].version = <<"3",".","4",".","0">>

\* the identity pattern: a capital, one or more small letters, a hyphen, a
\* capital, at least one more word character
MatchesIdentityPattern(name) ==
    \E h \in 3..(Len(name) - 2) :
        /\ name[h] = "-"
        /\ IsUpper(name[1])
        /\ \A k \in 2..(h - 1) : IsLower(name[k])
        /\ IsUpper(name[h + 1])
        /\ IsWord(name[h + 2])

\* the identity of file d: its front-matter title when there is a non-empty
\* one, the name of the file otherwise
IdentityOf(d) ==
    LET front == parse_front_matter(DocPool[d].text)
    IN  IF <<"t","i","t","l","e">> \in DOMAIN front /\ front[ <<"t","i","t","l","e">> ] # <<>>
        THEN front[ <<"t","i","t","l","e">> ] ELSE DocPool[d].stem

Identities == [d \in 1..Len(DocPool) |-> IdentityOf(d)]

EveryNameIsAnIdentity ==
    /\ \A k \in 1..Len(visited) :
          ~MatchesIdentityPattern(Identities[visited[k]]) => Parsed[visited[k]].is_none
    /\ \A k \in 1..Len(manifest_entries) : MatchesIdentityPattern(manifest_entries[k].n)
    /\ \A n \in DOMAIN descriptions : MatchesIdentityPattern(n)
    /\ \A g \in DOMAIN modules_data :
          \A n \in DOMAIN modules_data[g].cmdlets : MatchesIdentityPattern(n)

RejectedLeavesNoTrace ==
    (visited' # visited /\ ~MatchesIdentityPattern(Identities[visited'[Len(visited')]]))
        => UNCHANGED <<manifest_entries, descriptions, modules_data>>

\* C6: the parser returns None for every document whose identity fails the
\* identity pattern, processing such a document leaves the manifest, the
\* description table and the shards unchanged, and so every name in the
\* manifest, every key of the description table and every key of every
\* shard's cmdlets matches the identity pattern.
C6_IdentityInvariant ==
    /\ []EveryNameIsAnIdentity
    /\ [][RejectedLeavesNoTrace]_vars

\* C6: the file 'readme' and the file titled 'about teams' were both
\* processed after an accepted one, and only the accepted one left a record
C6_Witness ==
    /\ visited = <<1, 4, 5>>
    /\ Len(manifest_entries) = 1
    /\ DOMAIN descriptions = { <<"G","e","t","-","M","a","i","l","b","o","x">> }
    /\ DOMAIN modules_data = { <<"E","x","c","h","a","n","g","e","P","o","w","e","r","S","h","e","l","l">> }

\* C5: a failed read of one document is a skip: it never ends the run, the
\* run goes on to the next document and to the writing of the outputs.
C5_ReadFailureIsSkipped == ~(pc = "raised" /\ raised = "read_text")

\* C9: a failed version fetch, of whatever kind, never ends the run: the
\* remaining fetches and the traversal still happen.
C9_FetchFailureIsBestEffort ==
    ~(pc = "raised" /\ raised = "fetch_gallery_version" /\ fetch_i <= Len(MODULE_PACKAGE_MAP))

\* C7: when the outputs are written there is exactly one shard file per
\* group of the accumulator, and every group's shard is the content of one
\* of the files.
C7_OneFilePerGroup ==
    pc = "done" =>
        /\ Cardinality(DOMAIN module_files) = Cardinality(DOMAIN modules_data)
        /\ \A g \in DOMAIN modules_data :
              \E f \in DOMAIN module_files : module_files[f] = modules_data[g]

====
